---- MODULE Spec2Model ----
(***************************************************************************)
(* A model of the document indexer and query engine of secondME:           *)
(*   src/main/embed.py      Config, DocumentIndexer                        *)
(*   src/main/query_rag.py  SearchResult, QueryEngine, IndexerFactory,     *)
(*                          query_documents                                *)
(*                                                                         *)
(* Representation.                                                         *)
(*  - A path is a record [dir, stem, suffix]; Path.name is <<stem,         *)
(*    suffix>> and the string "doc_<name>" is the tuple <<"doc_", stem,    *)
(*    suffix>>.                                                            *)
(*  - A file's content is a version number; the text extracted from it is  *)
(*    the record [via, body] (which extractor read which content), and a   *)
(*    text's length in characters is TextLen.                              *)
(*  - A distance is an integer number of tenths, so the float 1.0 of the   *)
(*    score formula is ScoreOne = 10 tenths.                               *)
(*  - chromadb, pandas, BeautifulSoup and pathlib are libraries outside    *)
(*    the repository.  Their behaviour is the environment of the model:    *)
(*    Path.rglob yields nothing under a directory that does not exist,     *)
(*    Collection.add leaves a record whose id is already stored as it is,  *)
(*    Collection.query returns the n_results nearest records by ascending  *)
(*    distance, and chromadb.errors.ChromaDBError is read as the class of  *)
(*    the store's own errors, as the handlers of embed.py take it to be.   *)
(***************************************************************************)
EXTENDS Integers, Sequences, FiniteSets, TLC

VARIABLES
    \* the file system under the indexed directory, and the persisted stores
    rootExists,   \* whether the directory given to index_directory exists
    fs,           \* path -> [content, ok] for every file under the directory
    stores,       \* persist_dir -> collection (id -> [text, metadata])
    clean,        \* a run has finished and the directory is as that run saw it
    \* one run of DocumentIndexer.index_directory
    pc,           \* "idle", "loop" (lines 102-127), "done" (line 131)
    indexed_docs, \* the local of line 98
    files,        \* sorted(files) of line 102
    i,            \* position of the for loop of line 102 in files
    errors,       \* the logging.error records of this run, in order
    startColl,    \* the collection as it was when the run began
    rerun,        \* the run began on a directory unchanged since the last run
    listFailed,   \* collection.get() raised in get_indexed_docs
    processed,    \* the paths the loop has taken up, in order
    skipped,      \* paths that took the continue of line 106
    attempted,    \* paths for which _extract_text was called
    addCalls,     \* paths for which collection.add was called
    succeeded,    \* paths logged "Successfully indexed"
    \* the query side
    instance,     \* IndexerFactory._instance: NoIndexer or an indexer
    firstDir,     \* the persist_dir asked for by the first get_indexer call
    lastConfig,   \* config_path of the latest call, if it was query_documents
    target,       \* persist_dir of the store the latest search queried
    outcome,      \* how collection.query ended in the latest search
    raw,          \* what DocumentIndexer.search returned to the engine
    results,      \* the list QueryEngine.search returned
    status        \* "none", "returned" or "raised" for the latest search

treeVars == <<rootExists, fs, clean>>
runVars == <<pc, indexed_docs, files, i, errors, startColl, rerun, listFailed,
             processed, skipped, attempted, addCalls, succeeded>>
queryVars == <<instance, firstDir, lastConfig, target, outcome, raw, results,
               status>>
vars == <<treeVars, stores, runVars, queryVars>>

----------------------------------------------------------------------------
(* Bounds of the model *)

\* number of distinct contents a file can have
MaxContent == 2

----------------------------------------------------------------------------
(* Config, embed.py 11-18 *)

DefaultPersistDir == "chroma_db"
PersistDirs == {"chroma_db", "other_db"}
supported_extensions == {".html", ".csv"}

Contents == 1 .. MaxContent

P(d, s, x) == [dir |-> d, stem |-> s, suffix |-> x]

\* The files that can exist under the indexed directory, in the order
\* sorted() gives them: a/x.html < a/y.csv < a/z.txt < b/x.html.
PathOrder ==
    << P("a", "x", ".html"), P("a", "y", ".csv"),
       P("a", "z", ".txt"),  P("b", "x", ".html") >>

TreePaths == {PathOrder[k] : k \in 1 .. Len(PathOrder)}

\* A file outside the supported extensions is never opened: its content and
\* readability are fixed.
AttrsFor(p) ==
    IF p.suffix \in supported_extensions
    THEN [content : Contents, ok : BOOLEAN]
    ELSE {[content |-> 1, ok |-> TRUE]}

NoPath == P("", "", "")

Name(file_path) == <<file_path.stem, file_path.suffix>>

\* file_path.suffix[1:]
StripDot(suffix) ==
    CASE suffix = ".html" -> "html"
      [] suffix = ".csv"  -> "csv"
      [] suffix = ".txt"  -> "txt"
      [] OTHER -> ""

Min(a, b) == IF a <= b THEN a ELSE b

EmptyFn == [x \in {} |-> x]

\* Python's None
None == "None"

\* the marker of lastConfig when the latest call was not query_documents
NoCall == "no call"

\* the return value of line 148
EmptyResults == [documents |-> <<>>, metadatas |-> <<>>, distances |-> <<>>]

----------------------------------------------------------------------------
(* DocumentIndexer, embed.py 37-148 *)

\* The collection of the indexer that runs index_directory: the one of a
\* DocumentIndexer built from Config() with its default persist_dir.
Collection == stores[DefaultPersistDir]

\* A variant of DocId that numbers the documents: the id carries the count
\* of the documents listed when the run began.
DocIdByCount(file_path) ==
    <<"doc_">> \o Name(file_path) \o <<Cardinality(indexed_docs)>>

\* doc_id = f"doc_{file_path.name}"
DocId(file_path) == <<"doc_">> \o Name(file_path)

\* _find_files: the union, over the supported extensions, of
\* directory.rglob("*<ext>"); rglob yields nothing when the directory does
\* not exist.
FindFiles ==
    IF rootExists
    THEN UNION {{p \in DOMAIN fs : p.suffix = ext} : ext \in supported_extensions}
    ELSE {}

\* sorted(files)
SortedFiles(S) == SelectSeq(PathOrder, LAMBDA p : p \in S)

\* A variant of GetIndexedDocs without the fallback to the empty set
GetIndexedDocsNoFallback(coll, fails) == DOMAIN coll

\* get_indexed_docs: the ids of collection.get(), or set() when it raised
GetIndexedDocs(coll, fails) == IF fails THEN {} ELSE DOMAIN coll

\* _extract_text raises ValueError for a suffix it does not know
ExtractRaises(file_path) == file_path.suffix \notin {".html", ".csv"}

\* _extract_text: the text the extractor of the file's type reads from it
ExtractText(file_path, content) ==
    IF file_path.suffix = ".html"
    THEN [via |-> "html", body |-> content]
    ELSE [via |-> "csv", body |-> content]

\* the metadata dict of lines 109-113
Metadata(file_path) ==
    [source    |-> file_path,
     file_type |-> StripDot(file_path.suffix),
     filename  |-> Name(file_path)]

\* collection.add(documents=[text], metadatas=[metadata], ids=[doc_id]):
\* a record whose id is already stored is left as it is.
CollectionAdd(coll, id, text, metadata) ==
    IF id \in DOMAIN coll
    THEN coll
    ELSE [k \in DOMAIN coll \cup {id} |->
            IF k = id THEN [text |-> text, metadata |-> metadata] ELSE coll[k]]

\* How the processing of one file can fail, and the handler that logs it:
\* the file cannot be read ("read": IOError, OSError), its extraction raises
\* something else ("unexpected": Exception), or the store refuses the add
\* ("db": ChromaDBError).
FailureModes ==
    {[stage |-> "extract", kind |-> "read"],
     [stage |-> "extract", kind |-> "unexpected"],
     [stage |-> "add",     kind |-> "db"]}

InLoop == pc = "loop" /\ i <= Len(files)

\* The directory changes between two runs: a file is written, a file is
\* removed, the directory is removed or created.
ChangeDirectory ==
    /\ pc = "idle"
    /\ \/ /\ rootExists
          /\ \E p \in TreePaths : \E a \in AttrsFor(p) :
                /\ p \in DOMAIN fs => fs[p] # a
                /\ fs' = [q \in DOMAIN fs \cup {p} |-> IF q = p THEN a ELSE fs[q]]
          /\ UNCHANGED rootExists
       \/ /\ \E p \in DOMAIN fs : fs' = [q \in DOMAIN fs \ {p} |-> fs[q]]
          /\ UNCHANGED rootExists
       \/ /\ rootExists
          /\ rootExists' = FALSE
          /\ fs' = EmptyFn
       \/ /\ ~rootExists
          /\ rootExists' = TRUE
          /\ UNCHANGED fs
    /\ clean' = FALSE
    /\ UNCHANGED <<stores, runVars, queryVars>>

\* index_directory, lines 93-100: list the indexed ids, find the files
StartRun ==
    /\ pc = "idle"
    /\ \E fails \in BOOLEAN :
          /\ indexed_docs' = GetIndexedDocs(Collection, fails)
          /\ listFailed' = fails
          /\ errors' = IF fails THEN <<[kind |-> "list", path |-> NoPath]>> ELSE <<>>
    /\ files' = SortedFiles(FindFiles)
    /\ i' = 1
    /\ startColl' = Collection
    /\ rerun' = clean
    /\ pc' = "loop"
    /\ UNCHANGED <<treeVars, stores, processed, skipped, attempted, addCalls,
                   succeeded, queryVars>>

\* lines 104-106: the id is among indexed_docs, continue
SkipFile ==
    /\ InLoop
    /\ DocId(files[i]) \in indexed_docs
    /\ processed' = Append(processed, files[i])
    /\ skipped' = skipped \cup {files[i]}
    /\ i' = i + 1
    /\ UNCHANGED <<treeVars, stores, pc, indexed_docs, files, errors, startColl,
                   rerun, listFailed, attempted, addCalls, succeeded, queryVars>>

\* lines 108-120: extract, add, log "Successfully indexed"
IndexFile ==
    /\ InLoop
    /\ DocId(files[i]) \notin indexed_docs
    /\ fs[files[i]].ok /\ ~ExtractRaises(files[i])
    /\ stores' = [stores EXCEPT ![DefaultPersistDir] =
                    CollectionAdd(@, DocId(files[i]),
                                  ExtractText(files[i], fs[files[i]].content),
                                  Metadata(files[i]))]
    /\ processed' = Append(processed, files[i])
    /\ attempted' = attempted \cup {files[i]}
    /\ addCalls' = addCalls \cup {files[i]}
    /\ succeeded' = succeeded \cup {files[i]}
    /\ i' = i + 1
    /\ UNCHANGED <<treeVars, pc, indexed_docs, files, errors, startColl, rerun,
                   listFailed, skipped, queryVars>>

\* A variant of FailFile whose handler logs the failure and leaves the loop
FailFileAbort ==
    /\ InLoop
    /\ DocId(files[i]) \notin indexed_docs
    /\ \E m \in FailureModes :
          /\ ~fs[files[i]].ok
          /\ errors' = Append(errors, [kind |-> m.kind, path |-> files[i]])
          /\ addCalls' = IF m.stage = "add" THEN addCalls \cup {files[i]} ELSE addCalls
    /\ processed' = Append(processed, files[i])
    /\ attempted' = attempted \cup {files[i]}
    /\ i' = Len(files) + 1
    /\ UNCHANGED <<treeVars, stores, pc, indexed_docs, files, startColl, rerun,
                   listFailed, skipped, succeeded, queryVars>>

\* A variant of FailFile whose handler logs the failure and tries the same
\* file again
FailFileRetry ==
    /\ InLoop
    /\ DocId(files[i]) \notin indexed_docs
    /\ \E m \in FailureModes :
          /\ ~fs[files[i]].ok
          /\ errors' = Append(errors, [kind |-> m.kind, path |-> files[i]])
          /\ addCalls' = IF m.stage = "add" THEN addCalls \cup {files[i]} ELSE addCalls
    /\ processed' = Append(processed, files[i])
    /\ attempted' = attempted \cup {files[i]}
    /\ UNCHANGED <<treeVars, stores, pc, indexed_docs, files, i, startColl, rerun,
                   listFailed, skipped, succeeded, queryVars>>

\* lines 108-127: extraction or the add raises; the handler logs the path
\* and the loop goes on with the next file
FailFile ==
    /\ InLoop
    /\ DocId(files[i]) \notin indexed_docs
    /\ \E m \in FailureModes :
          /\ IF ExtractRaises(files[i])
             THEN m = [stage |-> "extract", kind |-> "unexpected"]
             ELSE ~fs[files[i]].ok
          /\ errors' = Append(errors, [kind |-> m.kind, path |-> files[i]])
          /\ addCalls' = IF m.stage = "add" THEN addCalls \cup {files[i]} ELSE addCalls
    /\ processed' = Append(processed, files[i])
    /\ attempted' = attempted \cup {files[i]}
    /\ i' = i + 1
    /\ UNCHANGED <<treeVars, stores, pc, indexed_docs, files, startColl, rerun,
                   listFailed, skipped, succeeded, queryVars>>

\* lines 129-131: the loop is over, "Indexing completed"
FinishRun ==
    /\ pc = "loop"
    /\ i > Len(files)
    /\ pc' = "done"
    /\ clean' = TRUE
    /\ UNCHANGED <<rootExists, fs, stores, indexed_docs, files, i, errors,
                   startColl, rerun, listFailed, processed, skipped, attempted,
                   addCalls, succeeded, queryVars>>

\* index_directory returns; its locals are gone
Return ==
    /\ pc = "done"
    /\ pc' = "idle"
    /\ indexed_docs' = {}
    /\ files' = <<>>
    /\ i' = 1
    /\ errors' = <<>>
    /\ startColl' = EmptyFn
    /\ rerun' = FALSE
    /\ listFailed' = FALSE
    /\ processed' = <<>>
    /\ skipped' = {}
    /\ attempted' = {}
    /\ addCalls' = {}
    /\ succeeded' = {}
    /\ UNCHANGED <<treeVars, stores, queryVars>>

\* No query has been made
QueryIdle ==
    /\ instance = None
    /\ firstDir = None
    /\ lastConfig = NoCall
    /\ target = None
    /\ outcome = "none"
    /\ raw = EmptyResults
    /\ results = <<>>
    /\ status = "none"

RunIdle ==
    /\ pc = "idle"
    /\ indexed_docs = {}
    /\ files = <<>>
    /\ i = 1
    /\ errors = <<>>
    /\ startColl = EmptyFn
    /\ rerun = FALSE
    /\ listFailed = FALSE
    /\ processed = <<>>
    /\ skipped = {}
    /\ attempted = {}
    /\ addCalls = {}
    /\ succeeded = {}

\* A new persist directory and an empty directory to index
Init ==
    /\ rootExists = TRUE
    /\ fs = EmptyFn
    /\ stores = [d \in PersistDirs |-> EmptyFn]
    /\ clean = FALSE
    /\ RunIdle
    /\ QueryIdle

----------------------------------------------------------------------------
(* The store's query, and DocumentIndexer.search, embed.py 140-148 *)

\* the distances the store can report, in tenths
DistValues == {1, 5, 9, 12}

\* the sequences that hold each element of S once
Orders(S) ==
    {f \in [1 .. Cardinality(S) -> S] :
        \A a, b \in 1 .. Cardinality(S) : f[a] = f[b] => a = b}

\* collection.query(query_texts=[query], n_results=n): for the one query
\* text, the n nearest records, nearest first; the lists of the result hold
\* one inner list per query text.
QueryAnswers(coll, n) ==
    {LET m == Min(n, Cardinality(DOMAIN coll))
     IN  [documents |-> << [k \in 1 .. m |-> coll[order[k]].text] >>,
          metadatas |-> << [k \in 1 .. m |-> coll[order[k]].metadata] >>,
          distances |-> << [k \in 1 .. m |-> dist[order[k]]] >>] :
       <<dist, order>> \in
          {x \in [DOMAIN coll -> DistValues] \X Orders(DOMAIN coll) :
              \A a, b \in 1 .. Cardinality(DOMAIN coll) :
                  a < b => x[1][x[2][a]] <= x[1][x[2][b]]}}

\* How collection.query can end: with an answer, with an error of the store
\* (caught at line 146) or with another exception (not caught).
QueryOutcomes == {"ok", "store_error", "other_error"}

----------------------------------------------------------------------------
(* query_rag.py *)

\* the 200 of doc[:200]
TruncLen == 200

\* the 1.0 of "1.0 - distance", in tenths
ScoreOne == 10

\* the default of num_results
DefaultNumResults == 5

\* the number of characters of a text
TextLen(text) == 120 * text.body

\* doc[:n]
Slice(text, n) == [via |-> text.via, body |-> text.body,
                   len |-> Min(TextLen(text), n)]

\* A variant of Score that passes the distance on
ScoreAsDistance(distance) == distance

\* score=1.0 - distance
Score(distance) == ScoreOne - distance

\* the SearchResult of lines 28-33
SearchResult(doc, metadata, distance) ==
    [source   |-> metadata.source,
     content  |-> Slice(doc, TruncLen),
     metadata |-> metadata,
     score    |-> Score(distance)]

\* zip(results["documents"][0], results["metadatas"][0],
\*     results["distances"][0]) mapped to SearchResult
Zipped(res) ==
    [k \in 1 .. Min(Len(res.documents[1]),
                    Min(Len(res.metadatas[1]), Len(res.distances[1]))) |->
        SearchResult(res.documents[1][k], res.metadatas[1][k],
                     res.distances[1][k])]

\* A variant of EngineSearch without the test of line 21: indexing an empty
\* list raises IndexError
EngineSearchNoGuard(res) ==
    IF res.documents = <<>>
    THEN [status |-> "raised", results |-> <<>>]
    ELSE [status |-> "returned", results |-> Zipped(res)]

\* QueryEngine.search, lines 19-36, on what the indexer's search returned
EngineSearch(res) ==
    IF res.documents # <<>>
    THEN [status |-> "returned", results |-> Zipped(res)]
    ELSE [status |-> "returned", results |-> <<>>]

\* A variant of GetIndexer that builds an indexer at every call
GetIndexerFresh(inst, config_path) ==
    IF config_path \in {None, ""} THEN "chroma_db" ELSE config_path

\* IndexerFactory.get_indexer: the indexer, named by its persist_dir
GetIndexer(inst, config_path) ==
    IF inst = None
    THEN IF config_path \in {None, ""} THEN "chroma_db" ELSE config_path
    ELSE inst

\* the values of config_path
ConfigPaths == {None, ""} \cup PersistDirs

\* The search of an engine over the indexer of persist_dir d: the indexer's
\* search (embed.py 140-148), then QueryEngine.search on what it returned.
Search(d, n) ==
    /\ status = "none"
    /\ target' = d
    /\ \E o \in QueryOutcomes :
          /\ outcome' = o
          /\ \/ /\ o = "ok"
                /\ \E answer \in QueryAnswers(stores[d], n) :
                      /\ raw' = answer
                      /\ results' = EngineSearch(answer).results
                      /\ status' = EngineSearch(answer).status
             \/ /\ o = "store_error"
                /\ raw' = EmptyResults
                /\ results' = EngineSearch(EmptyResults).results
                /\ status' = EngineSearch(EmptyResults).status
             \/ /\ o = "other_error"
                /\ raw' = EmptyResults
                /\ results' = <<>>
                /\ status' = "raised"

\* query_documents(query, config_path), lines 49-52
QueryDocuments ==
    \E config_path \in ConfigPaths :
        /\ instance' = GetIndexer(instance, config_path)
        /\ firstDir' = IF firstDir = None
                       THEN (IF config_path \in PersistDirs
                             THEN config_path ELSE DefaultPersistDir)
                       ELSE firstDir
        /\ lastConfig' = config_path
        /\ Search(instance', DefaultNumResults)
        /\ UNCHANGED <<treeVars, stores, runVars>>

\* the values of num_results an engine is called with
NumResults == {1, 2, DefaultNumResults}

\* QueryEngine(indexer).search(query, num_results) on an indexer built by
\* the caller
SearchCall ==
    \E d \in PersistDirs : \E n \in NumResults :
        /\ Search(d, n)
        /\ lastConfig' = NoCall
        /\ UNCHANGED <<treeVars, stores, runVars, instance, firstDir>>

\* The caller has the list, or the exception, of the latest search; the
\* factory keeps its indexer.
Deliver ==
    /\ status # "none"
    /\ lastConfig' = NoCall
    /\ target' = None
    /\ outcome' = "none"
    /\ raw' = EmptyResults
    /\ results' = <<>>
    /\ status' = "none"
    /\ UNCHANGED <<treeVars, stores, runVars, instance, firstDir>>

\* the files whose documents the stores hold when the queries begin
StoredPaths == {P("a", "x", ".html"), P("a", "y", ".csv"), P("b", "w", ".html")}

\* the collection the indexer builds from the files S with the contents c
CollectionOf(S, c) ==
    [id \in {DocId(p) : p \in S} |->
        LET p == CHOOSE q \in S : DocId(q) = id
        IN  [text |-> ExtractText(p, c[p]), metadata |-> Metadata(p)]]

Collections ==
    {CollectionOf(S, c) : <<S, c>> \in
        {x \in (SUBSET StoredPaths) \X [StoredPaths -> Contents] : TRUE}}

\* The stores as earlier runs left them: any collection in the default
\* persist directory, at most one document in another one.
QueryInit ==
    /\ rootExists = TRUE
    /\ fs = EmptyFn
    /\ stores \in {s \in [PersistDirs -> Collections] :
                     \A d \in PersistDirs \ {DefaultPersistDir} :
                         Cardinality(DOMAIN s[d]) <= 1}
    /\ clean = FALSE
    /\ RunIdle
    /\ QueryIdle

QueryNext == QueryDocuments \/ SearchCall \/ Deliver

QuerySpec == QueryInit /\ [][QueryNext]_vars

RunStep == SkipFile \/ IndexFile \/ FailFile \/ FinishRun

Next == ChangeDirectory \/ StartRun \/ RunStep \/ Return

Spec == Init /\ [][Next]_vars

\* index_directory is synchronous: once called it runs on to its last line
FairSpec == Spec /\ WF_vars(RunStep)

----------------------------------------------------------------------------
(* Properties of index_directory *)

Range(seq) == {seq[k] : k \in 1 .. Len(seq)}

InRun == pc \in {"loop", "done"}

\* the logging.error records that name a file
FileErrors == SelectSeq(errors, LAMBDA e : e.kind # "list")

\* the discovered files that are not indexed yet, as the run sees it, and
\* whose processing fails
BadFiles == {p \in Range(files) : DocId(p) \notin indexed_docs /\ ~fs[p].ok}

\* C1: a run of index_directory on a directory that is unchanged since the
\* run before it (same files, same contents, same files failing) inserts no
\* document: at every point of the run the collection, and so its id set,
\* is what it was when the run began.
C1_Idempotent == (InRun /\ rerun) => Collection = startColl

\* a second run over two files or more, one of them stored by the first
\* run, has finished
C1_Witness ==
    /\ pc = "done" /\ rerun
    /\ Len(files) >= 2
    /\ \E p \in Range(files) : DocId(p) \in DOMAIN Collection /\ fs[p].ok

\* C2: when exactly one discovered file fails, the run still takes up every
\* discovered file; every other discovered file whose id was not stored
\* when the run began is added and its id is stored at the end; and exactly
\* one failure that names a file is logged, naming the failing file.
C2_PartialFailure ==
    (pc = "done" /\ Cardinality(BadFiles) = 1) =>
        \A bad \in BadFiles :
            /\ processed = files
            /\ Len(FileErrors) = 1
            /\ FileErrors[1].path = bad
            /\ \A q \in Range(files) \ {bad} :
                  DocId(q) \notin DOMAIN startColl =>
                      /\ q \in succeeded
                      /\ DocId(q) \in DOMAIN Collection

\* one file of three failed, and it was not the last one of the loop
C2_Witness ==
    /\ pc = "done"
    /\ Cardinality(BadFiles) = 1
    /\ Len(files) = 3
    /\ Cardinality(succeeded) = 2
    /\ files[3] \in succeeded

\* C3: collection.add is only ever called with an id that is not in the
\* collection at the moment of the call.
C3_InsertPrecondition ==
    [][(InLoop /\ addCalls' # addCalls) =>
           DocId(files[i]) \notin DOMAIN Collection]_vars

\* C4: a run on a directory that does not exist ends in discovery with
\* DirectoryNotFound: it never gets to the loop over the files, and never
\* to its last line.
C4_MissingRootRaises == InRun => rootExists

\* C7: a file whose id is stored when the loop takes it up is skipped, and
\* what is stored under an id is never replaced.
C7_StoredIsSkipped ==
    [][/\ (InLoop /\ DocId(files[i]) \in DOMAIN Collection) =>
              skipped' = skipped \cup {files[i]}
       /\ \A id \in DOMAIN Collection :
              id \in DOMAIN Collection' /\ Collection'[id] = Collection[id]]_vars

\* C8: when listing the stored ids fails, get_indexed_docs logs the error
\* and gives the empty set; the run skips no file: it calls the extractor
\* for every discovered file and the add for every file that extracts.
C8_ListFallback ==
    (InRun /\ listFailed) =>
        /\ indexed_docs = {}
        /\ Len(errors) >= 1 /\ errors[1] = [kind |-> "list", path |-> NoPath]
        /\ skipped = {}
        /\ attempted = Range(processed)
        /\ \A p \in attempted : fs[p].ok => p \in addCalls
        /\ pc = "done" => attempted = Range(files)

\* the listing failed although a discovered file was stored already, and
\* the run is over
C8_Witness ==
    /\ pc = "done" /\ listFailed
    /\ \E p \in Range(files) : DocId(p) \in DOMAIN startColl

\* C9: a run that got past discovery reaches its last line, takes up no
\* file twice, and never removes or replaces a stored document.
C9_Terminates ==
    /\ (pc = "loop") ~> (pc = "done")
    /\ [][pc = "loop" =>
              /\ processed' # processed =>
                    /\ Len(processed') = Len(processed) + 1
                    /\ processed'[Len(processed')] \notin Range(processed)
              /\ \A id \in DOMAIN Collection :
                    id \in DOMAIN Collection' /\ Collection'[id] = Collection[id]]_vars

\* a run is over in which a document was inserted and two files failed
C9_Witness ==
    /\ pc = "done"
    /\ Len(FileErrors) = 2
    /\ Collection # startColl

----------------------------------------------------------------------------
(* Properties of the query side *)

\* C5: when the store answers with records in ascending distance order,
\* search returns one SearchResult per record, in the same order, each with
\* the record's metadata and source and with score = 1 - distance, so the
\* list is ranked by descending score.
C5_SearchOrdering ==
    (status = "returned" /\ outcome = "ok") =>
        /\ Len(raw.documents) = 1
        /\ Len(results) = Len(raw.documents[1])
        /\ \A k \in 1 .. Len(results) :
              /\ results[k].score + raw.distances[1][k] = ScoreOne
              /\ results[k].metadata = raw.metadatas[1][k]
              /\ results[k].source = raw.metadatas[1][k].source
              /\ results[k].content.body = raw.documents[1][k].body
        /\ \A j, k \in 1 .. Len(results) :
              j < k => /\ raw.distances[1][j] <= raw.distances[1][k]
                       /\ results[j].score >= results[k].score

\* distances 0.1, 0.5, 0.9 gave scores 0.9, 0.5, 0.1 in that order
C5_Witness ==
    /\ status = "returned" /\ outcome = "ok"
    /\ raw.distances = << <<1, 5, 9>> >>
    /\ [k \in 1 .. Len(results) |-> results[k].score] = <<9, 5, 1>>

\* C6: a search of an empty collection, and a search in which the store's
\* query failed and the indexer put its empty result structure in its
\* place, return the empty list and do not raise.
C6_EmptyResultSafety ==
    (\/ outcome = "store_error"
     \/ outcome = "ok" /\ DOMAIN stores[target] = {}) =>
        /\ status = "returned"
        /\ results = <<>>

\* the store's query failed on a collection that holds documents
C6_Witness ==
    /\ outcome = "store_error"
    /\ DOMAIN stores[target] # {}
    /\ raw = EmptyResults
    /\ status = "returned"

\* C10: once get_indexer has been called, the factory's indexer is the one
\* of the persist directory the first call asked for, and every
\* query_documents call queries that directory's store, whatever its
\* config_path.
C10_StickySingleton ==
    /\ firstDir # None => instance = firstDir
    /\ lastConfig # NoCall => target = firstDir

\* a query_documents call that named another persist directory queried the
\* directory of the first call
C10_Witness ==
    /\ lastConfig = "other_db"
    /\ firstDir = "chroma_db"
    /\ target = "chroma_db"
    /\ status = "returned"

====
